---- MODULE Spec2Model ----
(***************************************************************************)
(* A model of src/server.js: the AdvancedSMTPValidator class.              *)
(*                                                                         *)
(*   VerifySpec  one call of verifyEmail (format check, MX lookup, the     *)
(*               loop over the MX hosts);                                  *)
(*   ProbeSpec   one call of checkSmtpServer: the socket's events, the     *)
(*               timeout timer, cleanup and the promise's resolution       *)
(*               (FairProbeSpec: with the closing timer's callback run);   *)
(*   Spec        one call of processBatch: the groups, the tasks of a      *)
(*               group settling in any order, the callbacks, the results.  *)
(*                                                                         *)
(* Text is a sequence of one-character strings, so that the regular        *)
(* expression, split('\r\n'), startsWith, includes and parseInt are        *)
(* computed as the code computes them.                                     *)
(***************************************************************************)
EXTENDS Integers, Sequences, FiniteSets, TLC

VARIABLES
    ver,    \* verifyEmail: the locals of one call
    probe,  \* checkSmtpServer: the socket, the timer, the promise and the locals of one call
    batch   \* processBatch: the arguments, the locals and the callbacks' calls of one call

vars == <<ver, probe, batch>>

NoValue == "none"

(***************************************************************************)
(* Text                                                                    *)
(***************************************************************************)
Digit == {"0", "1", "2", "3", "4", "5", "6", "7", "8", "9"}
Letter == {"a", "b", "c", "d", "e", "f", "g", "h", "i", "j", "k", "l", "m",
           "n", "o", "p", "q", "r", "s", "t", "u", "v", "w", "x", "y", "z",
           "A", "B", "C", "D", "E", "F", "G", "H", "I", "J", "K", "L", "M",
           "N", "O", "P", "Q", "R", "S", "T", "U", "V", "W", "X", "Y", "Z"}
AlNum == Letter \cup Digit

\* s.startsWith(t)
StartsWith(s, t) == Len(s) >= Len(t) /\ SubSeq(s, 1, Len(t)) = t

\* s.includes(t)
Includes(s, t) ==
    \E k \in 0..(Len(s) - Len(t)) : SubSeq(s, k + 1, k + Len(t)) = t

\* The least k with s[k..] starting with sep, or 0.
IndexOf(s, sep) ==
    LET hits == {k \in 1..(Len(s) - Len(sep) + 1) : SubSeq(s, k, k + Len(sep) - 1) = sep}
    IN IF hits = {} THEN 0 ELSE CHOOSE k \in hits : \A j \in hits : k <= j

\* s.split(sep), sep not empty: the pieces between the occurrences of sep, the
\* last piece being what follows the last occurrence (empty when s ends with sep).
RECURSIVE Split(_, _)
Split(s, sep) ==
    LET k == IndexOf(s, sep)
    IN IF k = 0 THEN <<s>>
       ELSE <<SubSeq(s, 1, k - 1)>> \o Split(SubSeq(s, k + Len(sep), Len(s)), sep)

(***************************************************************************)
(* Values                                                                  *)
(***************************************************************************)
\* A human-readable message; the empty message is the empty string ''.
Msg(text) == <<text>>
MsgWithLine(text, line) == <<text, line>>
NoMessage == <<>>

\* A settled or pending promise.
Fulfilled(v) == [state |-> "fulfilled", value |-> v]
Rejected(e) == [state |-> "rejected", value |-> e]
Pending == [state |-> "pending", value |-> NoValue]

\* An element of the emails array: a JSON value. A string is its text; an array
\* holding one string is not a string, and String(value) is that string's text.
StringValue(text) == [isString |-> TRUE, text |-> text]
ArrayValue(text) == [isString |-> FALSE, text |-> text]

(***************************************************************************)
(* isValidFormat, getMxRecords                                             *)
(***************************************************************************)
LocalChar == AlNum \cup {".", "_", "%", "+", "-"}
DomainChar == AlNum \cup {".", "-"}

\* pattern.test(email): the argument is converted to a string, then matched
\* against ^[a-zA-Z0-9][a-zA-Z0-9._%+-]{0,63}@[a-zA-Z0-9][a-zA-Z0-9.-]{0,253}\.[a-zA-Z]{2,}$
\* (a: the place of the '@', d: the place of the '.' before the last label).
IsValidFormat(email) ==
    LET s == email.text
    IN \E a \in 2..Len(s) : \E d \in (a + 2)..Len(s) :
          /\ s[1] \in AlNum
          /\ \A k \in 2..(a - 1) : s[k] \in LocalChar
          /\ a - 2 <= 63
          /\ s[a] = "@"
          /\ s[a + 1] \in AlNum
          /\ \A k \in (a + 2)..(d - 1) : s[k] \in DomainChar
          /\ d - a - 2 <= 253
          /\ s[d] = "."
          /\ \A k \in (d + 1)..Len(s) : s[k] \in Letter
          /\ Len(s) - d >= 2

\* addresses.sort((a, b) => a.priority - b.priority): a stable sort.
RECURSIVE InsertByPriority(_, _)
InsertByPriority(sorted, rec) ==
    IF sorted = <<>> THEN <<rec>>
    ELSE IF rec.priority < Head(sorted).priority THEN <<rec>> \o sorted
    ELSE <<Head(sorted)>> \o InsertByPriority(Tail(sorted), rec)

RECURSIVE SortByPriority(_)
SortByPriority(addresses) ==
    IF addresses = <<>> THEN <<>>
    ELSE InsertByPriority(SortByPriority(SubSeq(addresses, 1, Len(addresses) - 1)),
                          addresses[Len(addresses)])

\* What dns.resolveMx hands its callback: (err, addresses).
\* err is the error's code, '' for none (null).
DnsFailure(code) == [err |-> code, addresses |-> <<>>]
DnsAnswer(addresses) == [err |-> "", addresses |-> addresses]

\* getMxRecords: the promise it returns, settled by the resolver's callback.
GetMxRecords(answer) ==
    IF answer.err # "" \/ Len(answer.addresses) = 0
    THEN Fulfilled(<<>>)
    ELSE LET sorted == SortByPriority(answer.addresses)
         IN Fulfilled([k \in 1..Len(sorted) |-> sorted[k].exchange])

(***************************************************************************)
(* checkSmtpServer: the values it resolves with                            *)
(***************************************************************************)
ResolveValid == [isValid |-> TRUE, message |-> Msg("Email exists"), category |-> "valid"]
ResolveNotExisting ==
    [isValid |-> FALSE, message |-> Msg("Email does not exist"), category |-> "not_existing"]
ResolveMailboxError ==
    [isValid |-> FALSE, message |-> Msg("Mailbox error"), category |-> "mailbox_error"]
ResolveTemporaryError ==
    [isValid |-> FALSE, message |-> Msg("Temporary server error"), category |-> "temporary_error"]
ResolveSmtpError(line) ==
    [isValid |-> FALSE, message |-> MsgWithLine("Server error", line), category |-> "smtp_error"]
ResolveTimeout ==
    [isValid |-> FALSE, message |-> Msg("Connection timeout"), category |-> "smtp_timeout"]
ResolveConnectionError ==
    [isValid |-> FALSE, message |-> Msg("Connection error"), category |-> "connection_error"]

(***************************************************************************)
(* verifyEmail                                                             *)
(***************************************************************************)
NoHost == "-"

NewResult(email) ==
    [email |-> email, isValid |-> FALSE, category |-> "invalid", message |-> NoMessage,
     details |-> [mxRecords |-> <<>>, smtpServer |-> NoHost]]

\* The locals of a call that has not started, and of one that has just been made.
VerifyIdle ==
    [pc |-> "idle", email |-> StringValue(<<>>), result |-> NewResult(StringValue(<<>>)),
     mxRecords |-> <<>>, next |-> 1,
     lookups |-> <<>>,      \* the domains getMxRecords was called with
     probed |-> <<>>,       \* the hosts checkSmtpServer was called with
     answer |-> DnsAnswer(<<>>),    \* what the resolver answered
     outcomes |-> <<>>]     \* the promises checkSmtpServer returned, as they ended
VerifyCall(email) ==
    [VerifyIdle EXCEPT !.pc = "format", !.email = email, !.result = NewResult(email)]

DomainOf(email) == Split(email.text, <<"@">>)[2]

\* A variant of VerifyFormat that asks for the MX records before it looks at the
\* format.
VerifyFormatLooksUpFirst(v) ==
    LET w == [v EXCEPT !.lookups = Append(@, DomainOf(v.email))]
    IN IF ~IsValidFormat(v.email)
       THEN [w EXCEPT !.pc = "returned",
                      !.result.message = Msg("Invalid email format"),
                      !.result.category = "invalid_format"]
       ELSE IF ~v.email.isString
       THEN [v EXCEPT !.pc = "threw"]
       ELSE [w EXCEPT !.pc = "mx"]

\* Lines 75-95: the format check, then const [, domain] = email.split('@'), which
\* throws a TypeError when email has no split method, then the call of
\* getMxRecords(domain).
VerifyFormat(v) ==
    IF ~IsValidFormat(v.email)
    THEN [v EXCEPT !.pc = "returned",
                   !.result.message = Msg("Invalid email format"),
                   !.result.category = "invalid_format"]
    ELSE IF ~v.email.isString
    THEN [v EXCEPT !.pc = "threw"]
    ELSE [v EXCEPT !.pc = "mx", !.lookups = Append(@, DomainOf(v.email))]

\* Lines 95-111: await getMxRecords(domain), given the promise it returned, up to
\* the call of checkSmtpServer for the first host.
VerifyMx(v, mxPromise) ==
    IF mxPromise.state = "rejected"
    THEN [v EXCEPT !.pc = "returned",
                   !.result.message = Msg("MX lookup error"),
                   !.result.category = "dns_error"]
    ELSE IF Len(mxPromise.value) = 0
    THEN [v EXCEPT !.pc = "returned",
                   !.result.message = Msg("MX records not found"),
                   !.result.category = "no_mx_records"]
    ELSE [v EXCEPT !.pc = "smtp",
                   !.mxRecords = mxPromise.value,
                   !.result.details.mxRecords = mxPromise.value,
                   !.probed = <<mxPromise.value[1]>>]

\* Lines 131-137: after the loop.
VerifyFinish(v) ==
    IF v.result.message = NoMessage
    THEN [v EXCEPT !.pc = "returned",
                   !.result.message = Msg("All SMTP servers unreachable"),
                   !.result.category = "smtp_timeout"]
    ELSE [v EXCEPT !.pc = "returned"]

\* Leaving one iteration of the loop of line 109: on to the next host and the
\* call of checkSmtpServer for it, or out of the loop.
VerifyContinue(v) ==
    IF v.next + 1 <= Len(v.mxRecords)
    THEN [v EXCEPT !.next = @ + 1, !.probed = Append(@, v.mxRecords[v.next + 1])]
    ELSE VerifyFinish([v EXCEPT !.next = @ + 1])

\* smtpResult.category || 'smtp_error' (line 120): '' stands for a missing category.
OrSmtpError(category) == IF category = "" THEN "smtp_error" ELSE category

\* A variant of VerifyProbe that keeps the placeholder category of line 78 when a
\* probe is not valid.
VerifyProbeKeepsPlaceholder(v, smtpPromise) ==
    LET mxHost == v.mxRecords[v.next]
        w == [v EXCEPT !.outcomes = Append(@, smtpPromise)]
        smtpResult == smtpPromise.value
    IN IF smtpPromise.state = "pending" THEN [w EXCEPT !.pc = "waiting"]
       ELSE IF smtpPromise.state = "rejected" THEN VerifyContinue(w)
       ELSE IF smtpResult.isValid
       THEN [w EXCEPT !.pc = "returned",
                      !.result.isValid = TRUE,
                      !.result.message = Msg("Email exists"),
                      !.result.category = "valid",
                      !.result.details.smtpServer = mxHost]
       ELSE VerifyContinue(
                [w EXCEPT !.result.message = smtpResult.message,
                          !.result.details.smtpServer = mxHost])

\* A variant of VerifyProbe that gives up on the first host answering 550/551
\* instead of going on to the next host.
VerifyProbeStopsAtNotExisting(v, smtpPromise) ==
    LET mxHost == v.mxRecords[v.next]
        w == [v EXCEPT !.outcomes = Append(@, smtpPromise)]
        smtpResult == smtpPromise.value
    IN IF smtpPromise.state = "pending" THEN [w EXCEPT !.pc = "waiting"]
       ELSE IF smtpPromise.state = "rejected" THEN VerifyContinue(w)
       ELSE IF smtpResult.isValid
       THEN [w EXCEPT !.pc = "returned",
                      !.result.isValid = TRUE,
                      !.result.message = Msg("Email exists"),
                      !.result.category = "valid",
                      !.result.details.smtpServer = mxHost]
       ELSE IF smtpResult.category = "not_existing"
       THEN [w EXCEPT !.pc = "returned",
                      !.result.message = smtpResult.message,
                      !.result.category = OrSmtpError(smtpResult.category),
                      !.result.details.smtpServer = mxHost]
       ELSE VerifyContinue(
                [w EXCEPT !.result.message = smtpResult.message,
                          !.result.category = OrSmtpError(smtpResult.category),
                          !.result.details.smtpServer = mxHost])

\* Lines 109-129: one iteration, await checkSmtpServer(mxHost, email) given the
\* promise it returned; a promise that never settles leaves the call waiting.
VerifyProbe(v, smtpPromise) ==
    LET mxHost == v.mxRecords[v.next]
        w == [v EXCEPT !.outcomes = Append(@, smtpPromise)]
        smtpResult == smtpPromise.value
    IN IF smtpPromise.state = "pending" THEN [w EXCEPT !.pc = "waiting"]
       ELSE IF smtpPromise.state = "rejected" THEN VerifyContinue(w)
       ELSE IF smtpResult.isValid
       THEN [w EXCEPT !.pc = "returned",
                      !.result.isValid = TRUE,
                      !.result.message = Msg("Email exists"),
                      !.result.category = "valid",
                      !.result.details.smtpServer = mxHost]
       ELSE VerifyContinue(
                [w EXCEPT !.result.message = smtpResult.message,
                          !.result.category = OrSmtpError(smtpResult.category),
                          !.result.details.smtpServer = mxHost])

(***************************************************************************)
(* checkSmtpServer                                                         *)
(***************************************************************************)
CRLF == <<"\r", "\n">>
T220 == <<"2", "2", "0">>
T250 == <<"2", "5", "0">>
THELO == <<"H", "E", "L", "O">>
TMAIL == <<"M", "A", "I", "L">>
TRCPT == <<"R", "C", "P", "T">>

\* parseInt's result when no number can be read.
NaN == -1000

DigitValue(c) ==
    CASE c = "0" -> 0 [] c = "1" -> 1 [] c = "2" -> 2 [] c = "3" -> 3 [] c = "4" -> 4
      [] c = "5" -> 5 [] c = "6" -> 6 [] c = "7" -> 7 [] c = "8" -> 8 [] c = "9" -> 9
      [] c \in {"a", "A"} -> 10 [] c \in {"b", "B"} -> 11 [] c \in {"c", "C"} -> 12
      [] c \in {"d", "D"} -> 13 [] c \in {"e", "E"} -> 14 [] c \in {"f", "F"} -> 15

HexDigit == Digit \cup {"a", "b", "c", "d", "e", "f", "A", "B", "C", "D", "E", "F"}

\* The value of the longest prefix of s made of digits of the radix, or NaN.
RECURSIVE DigitsValue(_, _, _, _)
DigitsValue(s, radix, acc, any) ==
    IF s # <<>> /\ Head(s) \in HexDigit /\ DigitValue(Head(s)) < radix
    THEN DigitsValue(Tail(s), radix, acc * radix + DigitValue(Head(s)), TRUE)
    ELSE IF any THEN acc ELSE NaN

RECURSIVE SkipSpace(_)
SkipSpace(s) ==
    IF s # <<>> /\ Head(s) \in {" ", "\t", "\r", "\n"} THEN SkipSpace(Tail(s)) ELSE s

\* parseInt(s): leading white space, a sign, 0x for radix 16, then digits.
ParseInt(s) ==
    LET t == SkipSpace(s)
        neg == t # <<>> /\ Head(t) = "-"
        u == IF t # <<>> /\ Head(t) \in {"-", "+"} THEN Tail(t) ELSE t
        hex == Len(u) >= 2 /\ u[1] = "0" /\ u[2] \in {"x", "X"}
        v == IF hex THEN DigitsValue(Tail(Tail(u)), 16, 0, FALSE)
             ELSE DigitsValue(u, 10, 0, FALSE)
    IN IF v = NaN THEN NaN ELSE IF neg THEN 0 - v ELSE v

\* line.substring(0, 3)
Substring03(line) == SubSeq(line, 1, IF Len(line) < 3 THEN Len(line) ELSE 3)

\* The locals of a call that has not been made.
ProbeIdle ==
    [sock |-> "idle",           \* idle | connecting | open | destroyed
     readEnded |-> FALSE,       \* 'end' was emitted: the peer has closed its side
     responseBuffer |-> <<>>,
     written |-> <<>>,          \* the socket.write calls, in order
     timer |-> FALSE,           \* the timeout timer is armed
     promise |-> Pending,       \* the promise checkSmtpServer returned
     resolveCalls |-> <<>>,     \* the values resolve() was called with, in order
     cleanups |-> 0,            \* the number of cleanup() calls
     closers |-> 0,             \* pending setTimeout(() => {end(); destroy()}, 100)
     reads |-> 0,               \* 'data' events delivered
     lineRuns |-> 0]            \* iterations of the loop over the lines, all reads together

\* socket.write(command)
Write(s, command) == [s EXCEPT !.written = Append(@, command)]

\* A variant of Cleanup that schedules no closing of the socket.
CleanupWithoutClose(s) ==
    [s EXCEPT !.timer = FALSE,
              !.written = Append(@, "QUIT"),
              !.cleanups = @ + 1]

\* Lines 146-155: cleanup. socket.write reports a failed write (the peer has closed,
\* the socket is ended or destroyed) through the 'error' event or not at all and
\* does not throw for a string, so the closing is always scheduled.
Cleanup(s) ==
    [s EXCEPT !.timer = FALSE,
              !.written = Append(@, "QUIT"),
              !.closers = @ + 1,
              !.cleanups = @ + 1]

\* A variant of Resolve in which every call settles the promise anew.
ResolveLastWins(s, value) ==
    [s EXCEPT !.promise = Fulfilled(value),
              !.resolveCalls = Append(@, value)]

\* The promise's resolve function: the first call settles it, later calls do nothing.
Resolve(s, value) ==
    [s EXCEPT !.promise = IF @.state = "pending" THEN Fulfilled(value) ELSE @,
              !.resolveCalls = Append(@, value)]

\* Lines 175-232: the loop's body for one line; return says the handler returned.
ProcessLine(s0, line) ==
    LET s == [s0 EXCEPT !.lineRuns = @ + 1]
        code == ParseInt(Substring03(line))
        go(t) == [s |-> t, return |-> FALSE]
        stop(t) == [s |-> t, return |-> TRUE]
    IN IF StartsWith(line, T220) THEN go(Write(s, "HELO"))
       ELSE IF StartsWith(line, T250) /\ Includes(line, THELO) THEN go(Write(s, "MAIL FROM"))
       ELSE IF StartsWith(line, T250) /\ Includes(line, TMAIL) THEN go(Write(s, "RCPT TO"))
       ELSE IF StartsWith(line, T250) /\ Includes(line, TRCPT)
       THEN stop(Resolve(Cleanup(s), ResolveValid))
       ELSE IF code = 550 \/ code = 551 THEN stop(Resolve(Cleanup(s), ResolveNotExisting))
       ELSE IF code = 552 \/ code = 553 THEN stop(Resolve(Cleanup(s), ResolveMailboxError))
       ELSE IF code = 421 \/ code = 450 THEN stop(Resolve(Cleanup(s), ResolveTemporaryError))
       ELSE IF code >= 500 /\ code <= 599 THEN stop(Resolve(Cleanup(s), ResolveSmtpError(line)))
       ELSE go(s)

\* Lines 174-233: for (let i = 0; i < lines.length - 1; i++), from line i (1-based).
RECURSIVE ProcessLines(_, _, _)
ProcessLines(s, lines, i) ==
    IF i > Len(lines) - 1 THEN s
    ELSE LET r == ProcessLine(s, lines[i])
         IN IF r.return THEN r.s ELSE ProcessLines(r.s, lines, i + 1)

\* Lines 170-234: the 'data' handler.
OnData(s, data) ==
    LET t == [s EXCEPT !.responseBuffer = @ \o data, !.reads = @ + 1]
    IN ProcessLines(t, Split(t.responseBuffer, CRLF), 1)

\* Lines 157-164: the timeout timer's callback.
OnTimeout(s) == Resolve(Cleanup([s EXCEPT !.timer = FALSE]), ResolveTimeout)

\* Lines 236-243: the 'error' handler; the socket that emits 'error' is destroyed.
OnError(s) == Resolve(Cleanup([s EXCEPT !.sock = "destroyed"]), ResolveConnectionError)

\* Lines 245-247: the 'end' handler.
OnEnd(s) == Cleanup([s EXCEPT !.readEnded = TRUE])

\* Lines 150-153: the callback cleanup scheduled: socket.end(); socket.destroy().
OnCloser(s) == [s EXCEPT !.closers = @ - 1, !.sock = "destroyed"]

(***************************************************************************)
(* The world one batch meets: what the resolver answers for each domain    *)
(* and how the probe of each host ends.                                    *)
(***************************************************************************)
\* checkSmtpServer(mxHost, email) seen from verifyEmail: the promise it returns.
SmtpPromiseOf(world, mxHost) == world.smtp[mxHost]

\* verifyEmail from a call to its end (returned, threw, or waiting for ever).
RECURSIVE RunVerify(_, _)
RunVerify(v, world) ==
    IF v.pc = "mx"
    THEN RunVerify(VerifyMx(v, GetMxRecords(world.dns[DomainOf(v.email)])), world)
    ELSE IF v.pc = "smtp"
    THEN RunVerify(VerifyProbe(v, SmtpPromiseOf(world, v.mxRecords[v.next])), world)
    ELSE v

VerifyEmail(email, world) == RunVerify(VerifyFormat(VerifyCall(email)), world)

(***************************************************************************)
(* analyzeResults                                                          *)
(***************************************************************************)
InitialCategories ==
    {"valid", "invalid_format", "no_mx_records", "dns_error", "not_existing",
     "smtp_timeout", "smtp_error", "connection_error", "mailbox_error", "temporary_error"}

\* Lines 253-271.
NewStats(results) ==
    [total |-> Len(results), valid |-> 0, invalid |-> 0,
     categories |-> [c \in InitialCategories |-> 0],
     domains |-> <<>>]

\* A variant of CountCategory that counts only the categories of line 257-268.
CountCategoryListedOnly(categories, category) ==
    IF category \in DOMAIN categories
    THEN [categories EXCEPT ![category] = @ + 1]
    ELSE categories

\* stats.categories[category] = (stats.categories[category] || 0) + 1
CountCategory(categories, category) ==
    IF category \in DOMAIN categories
    THEN [categories EXCEPT ![category] = @ + 1]
    ELSE (category :> 1) @@ categories

\* result.email.includes('@'): of a string, the text holds '@'; of an array, one
\* of its elements is the string '@'.
EmailIncludesAt(email) ==
    IF email.isString THEN Includes(email.text, <<"@">>) ELSE email.text = <<"@">>

\* Lines 283-294: stats.domains, kept as the sequence of its entries in insertion order.
CountDomain(domains, result) ==
    IF ~EmailIncludesAt(result.email) THEN domains
    ELSE LET domain == DomainOf(result.email)
             at == {k \in 1..Len(domains) : domains[k].domain = domain}
             old == IF at = {}
                    THEN Append(domains, [domain |-> domain, total |-> 0, valid |-> 0, invalid |-> 0])
                    ELSE domains
             k == CHOOSE j \in 1..Len(old) : old[j].domain = domain
         IN [old EXCEPT ![k].total = @ + 1,
                        ![k].valid = IF result.isValid THEN @ + 1 ELSE @,
                        ![k].invalid = IF result.isValid THEN @ ELSE @ + 1]

\* Lines 273-295: the forEach callback.
CountResult(stats, result) ==
    LET counted ==
            IF result.isValid
            THEN [stats EXCEPT !.valid = @ + 1, !.categories["valid"] = @ + 1]
            ELSE [stats EXCEPT !.invalid = @ + 1,
                               !.categories = CountCategory(@, result.category)]
    IN [counted EXCEPT !.domains = CountDomain(@, result)]

\* results.forEach from results[k] on (reading stats.total first makes the
\* evaluator compute stats at every turn, as the loop does).
RECURSIVE FoldResults(_, _, _)
FoldResults(stats, results, k) ==
    IF stats.total < k - 1 \/ k > Len(results) THEN stats
    ELSE FoldResults(CountResult(stats, results[k]), results, k + 1)

\* Lines 252-308, without topDomains (derived from domains, read by nothing here).
AnalyzeResults(results) == FoldResults(NewStats(results), results, 1)

(***************************************************************************)
(* processBatch                                                            *)
(***************************************************************************)
concurrentLimit == 5
StatsEvery == 100

NoCallback == [present |-> FALSE, throwsAt |-> {}]
\* A callback that throws when called with a number of throwsAt: onProgress is
\* called with completed, onStatsUpdate with an aggregate, whose total counts.
Callback(throwsAt) == [present |-> TRUE, throwsAt |-> throwsAt]

EmptyMap == [k \in {} |-> k]

BatchIdle ==
    [pc |-> "idle",             \* idle | group | delay | done | rejected
     emails |-> <<>>, onProgress |-> NoCallback, onStatsUpdate |-> NoCallback,
     world |-> [dns |-> EmptyMap, smtp |-> EmptyMap],
     results |-> <<>>,
     completed |-> 0,
     group |-> 0,               \* the loop's i of line 362, from 1
     inflight |-> {},           \* the input positions whose task has not settled
     started |-> {},            \* the input positions whose verifyEmail was called
     settled |-> EmptyMap,      \* Promise.all's array for the group: position -> verdict
     order |-> <<>>,            \* the group's positions in the order their tasks fulfilled
     progress |-> <<>>,         \* the onProgress calls: their completed arguments
     reported |-> EmptyMap,     \* position -> the verdict last passed to onProgress
     threwAt |-> {},            \* the positions whose verifyEmail threw
     stats |-> <<>>,            \* the onStatsUpdate calls
     callbackThrew |-> FALSE,   \* some callback call threw
     statistics |-> NewStats(<<>>)]  \* the statistics returned, once pc = "done"

\* Lines 356-359: the groups, each the sequence of its input positions.
NumGroups(n) == (n + concurrentLimit - 1) \div concurrentLimit
\* A variant of GroupPositions whose groups hold one address more.
GroupPositionsOneMore(g, n) ==
    LET first == (g - 1) * (concurrentLimit + 1) + 1
        last == IF g * (concurrentLimit + 1) < n THEN g * (concurrentLimit + 1) ELSE n
    IN [k \in 1..(last - first + 1) |-> first + k - 1]

GroupPositions(g, n) ==
    LET first == (g - 1) * concurrentLimit + 1
        last == IF g * concurrentLimit < n THEN g * concurrentLimit ELSE n
    IN [k \in 1..(last - first + 1) |-> first + k - 1]

SeqRange(q) == {q[k] : k \in 1..Len(q)}

\* Lines 318-320: group.map(async (email) => ...): every task calls verifyEmail.
StartGroup(b, g) ==
    LET positions == SeqRange(GroupPositions(g, Len(b.emails)))
    IN [b EXCEPT !.pc = "group", !.group = g,
                 !.inflight = positions, !.started = @ \cup positions,
                 !.settled = EmptyMap, !.order = <<>>]

\* onProgress(completed, total, verdict): the call and whether it threw.
CallProgress(b, pos, verdict) ==
    IF ~b.onProgress.present THEN [b |-> b, threw |-> FALSE]
    ELSE LET threw == b.completed \in b.onProgress.throwsAt
         IN [b |-> [b EXCEPT !.progress = Append(@, b.completed),
                             !.reported = (pos :> verdict) @@ @,
                             !.callbackThrew = @ \/ threw],
             threw |-> threw]

\* onStatsUpdate(aggregate): the call and whether it threw.
CallStats(b, kind, aggregate) ==
    LET threw == aggregate.total \in b.onStatsUpdate.throwsAt
    IN [b |-> [b EXCEPT !.stats = Append(@, [kind |-> kind, completed |-> b.completed,
                                             aggregate |-> aggregate]),
                        !.callbackThrew = @ \/ threw],
        threw |-> threw]

\* The task's promise is fulfilled with verdict: its place in Promise.all's array.
TaskFulfilled(b, pos, verdict) ==
    [b EXCEPT !.inflight = @ \ {pos},
              !.settled = (pos :> verdict) @@ @,
              !.order = Append(@, pos)]

\* The task's promise is rejected: Promise.all rejects, and so does processBatch
\* at line 367 (the group's other tasks go on).
TaskRejected(b, pos) ==
    [b EXCEPT !.inflight = @ \ {pos},
              !.pc = IF @ = "group" THEN "rejected" ELSE @]

\* A variant of TaskCatch that lets the failure through: the task is rejected.
TaskCatchRethrows(b0, pos) == TaskRejected(b0, pos)

\* Lines 334-349: the catch block.
TaskCatch(b0, pos) ==
    LET b == [b0 EXCEPT !.completed = @ + 1]
        errorResult == [email |-> b.emails[pos], isValid |-> FALSE,
                        category |-> "processing_error",
                        message |-> Msg("Processing error"),
                        details |-> [mxRecords |-> <<>>, smtpServer |-> NoHost]]
        p == CallProgress(b, pos, errorResult)
    IN IF p.threw THEN TaskRejected(p.b, pos) ELSE TaskFulfilled(p.b, pos, errorResult)

\* Lines 327-331: the statistics every 100 completed.
PeriodicStats(b) ==
    IF b.completed % StatsEvery = 0 /\ b.onStatsUpdate.present
    THEN CallStats(b, "periodic", AnalyzeResults(b.results))
    ELSE [b |-> b, threw |-> FALSE]

\* Lines 319-333: the try block, after await this.verifyEmail(email) has ended as v.
TaskTry(b0, pos, v) ==
    IF v.pc = "threw" THEN TaskCatch([b0 EXCEPT !.threwAt = @ \cup {pos}], pos)
    ELSE LET b == [b0 EXCEPT !.completed = @ + 1]
             p == CallProgress(b, pos, v.result)
             q == PeriodicStats(p.b)
         IN IF p.threw THEN TaskCatch(p.b, pos)
            ELSE IF q.threw THEN TaskCatch(q.b, pos)
            ELSE TaskFulfilled(q.b, pos, v.result)

\* A variant of GroupResults that takes the verdicts in the order the tasks ended.
GroupResultsInCompletionOrder(b) ==
    [k \in 1..Len(b.order) |-> b.settled[b.order[k]]]

\* Line 352: what Promise.all fulfils with: the verdicts in the group's order.
GroupResults(b) ==
    LET positions == GroupPositions(b.group, Len(b.emails))
    IN [k \in 1..Len(positions) |-> b.settled[positions[k]]]

\* Lines 371-380: the final statistics and the return.
FinishBatch(b) ==
    LET finalStats == AnalyzeResults(b.results)
        c == IF b.onStatsUpdate.present
             THEN CallStats(b, "final", finalStats)
             ELSE [b |-> b, threw |-> FALSE]
    IN IF c.threw THEN [c.b EXCEPT !.pc = "rejected"]
       ELSE [c.b EXCEPT !.pc = "done", !.statistics = finalStats]

\* Lines 367-369 and on: processGroup's promise is fulfilled, results.push, and the
\* loop's next turn: the delay before the next group, or the end of the loop.
AfterGroup(b0) ==
    LET b == [b0 EXCEPT !.results = @ \o GroupResults(b0)]
    IN IF b.group < NumGroups(Len(b.emails)) THEN [b EXCEPT !.pc = "delay"]
       ELSE FinishBatch(b)

\* Lines 311-367: the call, up to its first await.
ProcessBatchCall(emails, onProgress, onStatsUpdate, world) ==
    LET b == [BatchIdle EXCEPT !.emails = emails, !.onProgress = onProgress,
                               !.onStatsUpdate = onStatsUpdate, !.world = world]
    IN IF NumGroups(Len(emails)) = 0 THEN FinishBatch(b) ELSE StartGroup(b, 1)

(***************************************************************************)
(* ProbeSpec: one call of checkSmtpServer under any sequence of events      *)
(***************************************************************************)
\* The number of 'data' events one probe is followed through.
MaxReads == 4

\* Reply lines a server sends, and the pieces the network delivers them in.
Line220 == T220
Line250Helo == T250 \o <<" ">> \o THELO
Line250Mail == T250 \o <<" ">> \o TMAIL
Line250Rcpt == T250 \o <<" ">> \o TRCPT
Line550 == <<"5", "5", "0">>
Line553 == <<"5", "5", "3">>
Line450 == <<"4", "5", "0">>
Line554 == <<"5", "5", "4">>
ServerLines ==
    {Line220, Line250Helo, Line250Mail, Line250Rcpt, Line550, Line553, Line450, Line554}
Chunks ==
    {line \o CRLF : line \in ServerLines}
        \cup {<<"5", "5">>, <<"1", "\r">>, <<"\n">>}

ProbeInit == ver = VerifyIdle /\ probe = ProbeIdle /\ batch = BatchIdle

\* Lines 141-164: the call: the connection is being made and the timer is armed.
CheckSmtpServer ==
    /\ probe.sock = "idle"
    /\ probe' = [probe EXCEPT !.sock = "connecting", !.timer = TRUE]
    /\ UNCHANGED <<ver, batch>>

\* Lines 166-168: the 'connect' handler.
SocketConnect ==
    /\ probe.sock = "connecting"
    /\ probe' = [probe EXCEPT !.sock = "open", !.responseBuffer = <<>>]
    /\ UNCHANGED <<ver, batch>>

SocketData ==
    /\ probe.sock = "open" /\ ~probe.readEnded
    /\ probe.reads < MaxReads
    /\ \E data \in Chunks : probe' = OnData(probe, data)
    /\ UNCHANGED <<ver, batch>>

SocketEnd ==
    /\ probe.sock = "open" /\ ~probe.readEnded
    /\ probe' = OnEnd(probe)
    /\ UNCHANGED <<ver, batch>>

SocketError ==
    /\ probe.sock \in {"connecting", "open"}
    /\ probe' = OnError(probe)
    /\ UNCHANGED <<ver, batch>>

TimeoutFires ==
    /\ probe.timer
    /\ probe' = OnTimeout(probe)
    /\ UNCHANGED <<ver, batch>>

CloserFires ==
    /\ probe.closers > 0
    /\ probe' = OnCloser(probe)
    /\ UNCHANGED <<ver, batch>>

ProbeNext ==
    \/ CheckSmtpServer
    \/ SocketConnect
    \/ SocketData
    \/ SocketEnd
    \/ SocketError
    \/ TimeoutFires
    \/ CloserFires

ProbeSpec == ProbeInit /\ [][ProbeNext]_vars

\* The event loop runs the callback of a timer that was set and not cleared: the
\* closing scheduled by cleanup (nothing clears it) does run.
FairProbeSpec == ProbeSpec /\ WF_vars(CloserFires)

(***************************************************************************)
(* Inputs                                                                  *)
(***************************************************************************)
TextAB == <<"a", "@", "b", ".", "c", "o">>
DomainB == <<"b", ".", "c", "o">>
DomainD == <<"d", ".", "i", "o">>
AddrA == StringValue(TextAB)
AddrC == StringValue(<<"c", "@", "d", ".", "i", "o">>)
AddrE == StringValue(<<"e", ".", "f", "@", "b", ".", "c", "o">>)
AddrShortTld == StringValue(<<"a", "@", "b", ".", "c">>)
AddrLeadingDot == StringValue(<<".", "a", "@", "b", ".", "c", "o">>)
AddrTwoAts == StringValue(<<"a", "@", "@", "b", ".", "c", "o">>)
AddrArray == ArrayValue(TextAB)
Emails == {AddrA, AddrC, AddrE, AddrShortTld, AddrLeadingDot, AddrTwoAts, AddrArray}

Hosts == {"mx1", "mx2"}
Priorities == {10, 20}
MxRecord(exchange, priority) == [exchange |-> exchange, priority |-> priority]

\* The most MX records one answer holds.
MaxMx == 2
RECURSIVE SeqsUpTo(_, _)
SeqsUpTo(S, n) ==
    IF n = 0 THEN {<<>>}
    ELSE LET shorter == SeqsUpTo(S, n - 1)
         IN shorter \cup {Append(q, x) : q \in shorter, x \in S}

\* ENOTFOUND (no such domain) and ENODATA (no MX record) say the answer is empty;
\* the other codes are failures of the lookup itself.
EmptyAnswerCodes == {"ENOTFOUND", "ENODATA"}
LookupFailureCodes == {"ETIMEOUT", "ESERVFAIL", "ECONNREFUSED"}
DnsAnswers ==
    {DnsFailure(code) : code \in EmptyAnswerCodes \cup LookupFailureCodes}
        \cup {DnsAnswer(a) : a \in SeqsUpTo({MxRecord(h, p) : h \in Hosts, p \in Priorities}, MaxMx)}

\* How a call of checkSmtpServer can end: fulfilled with one of the values it
\* resolves with, or never settled.
SmtpResults ==
    {ResolveValid, ResolveNotExisting, ResolveMailboxError, ResolveTemporaryError,
     ResolveSmtpError(Line554), ResolveTimeout, ResolveConnectionError}
SmtpPromises == {Fulfilled(r) : r \in SmtpResults} \cup {Pending}

(***************************************************************************)
(* VerifySpec: one call of verifyEmail                                     *)
(***************************************************************************)
VerifyInit == ver = VerifyIdle /\ probe = ProbeIdle /\ batch = BatchIdle

\* The call, up to its first await.
VerifyEmailCalled ==
    /\ ver.pc = "idle"
    /\ \E email \in Emails : ver' = VerifyFormat(VerifyCall(email))
    /\ UNCHANGED <<probe, batch>>

\* The resolver calls back and getMxRecords' promise settles.
MxLookupSettles ==
    /\ ver.pc = "mx"
    /\ \E answer \in DnsAnswers :
          ver' = VerifyMx([ver EXCEPT !.answer = answer], GetMxRecords(answer))
    /\ UNCHANGED <<probe, batch>>

\* The probe of the current host ends (or is seen never to).
SmtpProbeSettles ==
    /\ ver.pc = "smtp"
    /\ \E smtpPromise \in SmtpPromises : ver' = VerifyProbe(ver, smtpPromise)
    /\ UNCHANGED <<probe, batch>>

VerifyNext == VerifyEmailCalled \/ MxLookupSettles \/ SmtpProbeSettles

VerifySpec == VerifyInit /\ [][VerifyNext]_vars

(***************************************************************************)
(* Spec: one call of processBatch                                          *)
(***************************************************************************)
\* The longest batch whose every schedule is followed, the shifts of the pool of
\* addresses a batch is drawn from, and the values of completed at which an
\* onProgress callback may throw.
MaxBatch == 7
MaxShift == 1
MaxThrowAt == 2

Pool == <<AddrA, AddrC, AddrShortTld, AddrE, AddrArray>>
EmailsOf(n, shift) == [k \in 1..n |-> Pool[((k + shift) % Len(Pool)) + 1]]

Answer1 == DnsAnswer(<<MxRecord("mx1", 10)>>)
Answer21 == DnsAnswer(<<MxRecord("mx2", 20), MxRecord("mx1", 10)>>)
DnsWorlds ==
    {(DomainB :> Answer21) @@ (DomainD :> Answer1),
     (DomainB :> DnsFailure("ETIMEOUT")) @@ (DomainD :> Answer21)}
SmtpWorlds ==
    {("mx1" :> Fulfilled(ResolveValid)) @@ ("mx2" :> Fulfilled(ResolveValid)),
     ("mx1" :> Fulfilled(ResolveConnectionError)) @@ ("mx2" :> Fulfilled(ResolveNotExisting)),
     ("mx1" :> Pending) @@ ("mx2" :> Fulfilled(ResolveValid))}
Worlds == {[dns |-> d, smtp |-> s] : d \in DnsWorlds, s \in SmtpWorlds}

AlwaysThrows == Callback(0..(StatsEvery + MaxBatch))
ProgressCallbacks == {NoCallback} \cup {Callback(S) : S \in SUBSET (1..MaxThrowAt)}
StatsCallbacks == {NoCallback, Callback({}), AlwaysThrows}

ShortInputs ==
    {[emails |-> EmailsOf(n, shift), onProgress |-> p, onStatsUpdate |-> u, world |-> w] :
        n \in 0..MaxBatch, shift \in 0..MaxShift,
        p \in ProgressCallbacks, u \in StatsCallbacks, w \in Worlds}

\* Batches that reach the periodic statistics.
FirstWorld ==
    [dns |-> (DomainB :> Answer21) @@ (DomainD :> Answer1),
     smtp |-> ("mx1" :> Fulfilled(ResolveConnectionError)) @@ ("mx2" :> Fulfilled(ResolveValid))]
LongInputs ==
    {[emails |-> EmailsOf(StatsEvery, 0), onProgress |-> Callback({}),
      onStatsUpdate |-> u, world |-> FirstWorld] :
        u \in {Callback({}), Callback({StatsEvery - concurrentLimit})}}

BatchInputs == ShortInputs \cup LongInputs

Init == ver = VerifyIdle /\ probe = ProbeIdle /\ batch = BatchIdle

ProcessBatch ==
    /\ batch.pc = "idle"
    /\ \E in \in BatchInputs :
          batch' = ProcessBatchCall(in.emails, in.onProgress, in.onStatsUpdate, in.world)
    /\ UNCHANGED <<ver, probe>>

\* verifyEmail of the address at pos never ends: it awaits a probe that never resolves.
WaitsForEver(pos) == VerifyEmail(batch.emails[pos], batch.world).pc = "waiting"

\* The task of the address at pos is in flight and its verifyEmail ends.
CanSettle(pos) == pos \in batch.inflight /\ ~WaitsForEver(pos)

\* verifyEmail ends for one address of the group and its task runs to its end.
TaskSettles ==
    /\ \E pos \in batch.inflight :
          /\ CanSettle(pos)
          /\ batch' = TaskTry(batch, pos, VerifyEmail(batch.emails[pos], batch.world))
    /\ UNCHANGED <<ver, probe>>

\* Promise.all of the group in progress is fulfilled.
GroupIsSettled == batch.pc = "group" /\ batch.inflight = {}

\* Every task of the group is fulfilled: await processGroup(groups[i]) resumes.
GroupSettles ==
    /\ GroupIsSettled
    /\ batch' = AfterGroup(batch)
    /\ UNCHANGED <<ver, probe>>

\* Line 364: the delay between two groups is over and the next group starts.
DelayElapses ==
    /\ batch.pc = "delay"
    /\ batch' = StartGroup(batch, batch.group + 1)
    /\ UNCHANGED <<ver, probe>>

Next == ProcessBatch \/ TaskSettles \/ GroupSettles \/ DelayElapses

Spec == Init /\ [][Next]_vars

(***************************************************************************)
(* Properties of processBatch (Spec)                                       *)
(***************************************************************************)
Positions == 1..Len(batch.emails)
GroupOf(pos) == ((pos - 1) \div concurrentLimit) + 1

\* C1: when the batch completes, results has one entry per input address, entry i
\* is the verdict of input address i (the one reported for it through onProgress,
\* and verifyEmail's own verdict unless the address ended in the catch block),
\* whatever order the tasks of a group ended in.
C1_ResultsInInputOrder ==
    batch.pc = "done" =>
        /\ Len(batch.results) = Len(batch.emails)
        /\ \A i \in Positions :
              /\ batch.results[i].email = batch.emails[i]
              /\ batch.onProgress.present => batch.results[i] = batch.reported[i]
              /\ batch.results[i].category # "processing_error" =>
                    batch.results[i] = VerifyEmail(batch.emails[i], batch.world).result

\* A batch of two groups completed whose last group ended in the reverse order.
C1_Witness ==
    /\ batch.pc = "done"
    /\ Len(batch.emails) = concurrentLimit + 2
    /\ batch.order = <<concurrentLimit + 2, concurrentLimit + 1>>
    /\ batch.results[concurrentLimit + 1].email # batch.results[concurrentLimit + 2].email

\* C2: no address of group k+1 starts before every address of group k has its
\* verdict, and at most concurrentLimit verifications are in flight.
C2_GroupBarrier ==
    /\ Cardinality(batch.inflight) <= concurrentLimit
    /\ batch.inflight \subseteq batch.started
    /\ \A j \in Positions :
          (\E i \in batch.started : GroupOf(j) < GroupOf(i)) =>
              j \in batch.started \ batch.inflight /\ j <= Len(batch.results)

\* The second group is in flight after a full first group.
C2_Witness ==
    /\ batch.pc = "group" /\ batch.group = 2
    /\ Cardinality(batch.inflight) = 2
    /\ Len(batch.results) = concurrentLimit

\* C5: the values of completed passed to onProgress are 1, 2, ..., never beyond
\* total, and all of 1..total once the batch has completed.
C5_ProgressCountsEachVerdictOnce ==
    /\ \A k \in 1..Len(batch.progress) : batch.progress[k] = k /\ k <= Len(batch.emails)
    /\ batch.pc = "done" /\ batch.onProgress.present =>
          Len(batch.progress) = Len(batch.emails)

\* C6: the aggregate of a periodic onStatsUpdate call counts the verdicts emitted so
\* far: its total is the value of completed at the call.
C6_PeriodicStatsCoverCompleted ==
    \A k \in 1..Len(batch.stats) :
        batch.stats[k].kind = "periodic" =>
            batch.stats[k].aggregate.total = batch.stats[k].completed

\* C7: a verifyEmail that throws gives its address a processing_error verdict at
\* its input position, every other address keeps its own verdict, processBatch
\* is rejected only when a callback threw, and the batch is never stopped short
\* of its end: while processBatch has neither returned nor been rejected, a task
\* can end, the group's barrier can release or the next group can start, unless
\* an address in flight waits for a probe that never resolves.
C7_FailedAddressDoesNotAbort ==
    /\ batch.pc = "rejected" => batch.callbackThrew
    /\ batch.pc = "done" =>
          \A i \in Positions :
              IF i \in batch.threwAt
              THEN /\ batch.results[i].category = "processing_error"
                   /\ batch.results[i].email = batch.emails[i]
                   /\ ~batch.results[i].isValid
              ELSE batch.callbackThrew \/
                      batch.results[i] = VerifyEmail(batch.emails[i], batch.world).result
    /\ batch.pc \in {"group", "delay"} =>
          \/ \E pos \in batch.inflight : WaitsForEver(pos)
          \/ \E pos \in batch.inflight : CanSettle(pos)
          \/ GroupIsSettled
          \/ batch.pc = "delay"

\* A batch of two groups completed in which an address threw and another is valid.
C7_Witness ==
    /\ batch.pc = "done"
    /\ Len(batch.emails) = concurrentLimit + 2
    /\ \E i \in batch.threwAt : batch.results[i].category = "processing_error"
    /\ \E i \in Positions : batch.results[i].isValid

\* C10: onStatsUpdate is called once for every multiple of 100 completed reaches,
\* and once more at the end with the aggregate that is returned as statistics.
C10_StatsCalls ==
    batch.pc = "done" /\ batch.onStatsUpdate.present =>
        LET calls == batch.stats
            n == Len(calls)
        IN /\ n = (batch.completed \div StatsEvery) + 1
           /\ \A m \in 1..(n - 1) :
                 calls[m].kind = "periodic" /\ calls[m].completed = m * StatsEvery
           /\ calls[n].kind = "final"
           /\ calls[n].aggregate = batch.statistics
           /\ batch.statistics.total = Len(batch.emails)

(***************************************************************************)
(* Properties of verifyEmail (VerifySpec)                                  *)
(***************************************************************************)
\* hosts are the exchanges of addresses by ascending priority, records of equal
\* priority in the order of the answer.
InPriorityOrder(hosts, addresses) ==
    /\ Len(hosts) = Len(addresses)
    /\ \E f \in [1..Len(hosts) -> 1..Len(hosts)] :
          /\ \A k, l \in 1..Len(hosts) : k # l => f[k] # f[l]
          /\ \A k \in 1..Len(hosts) : hosts[k] = addresses[f[k]].exchange
          /\ \A k, l \in 1..Len(hosts) :
                k < l => \/ addresses[f[k]].priority < addresses[f[l]].priority
                         \/ /\ addresses[f[k]].priority = addresses[f[l]].priority
                            /\ f[k] < f[l]

\* C3: the hosts are probed one at a time in priority order; the first valid probe
\* ends the loop with a valid verdict naming that host; with no valid probe every
\* host is probed and the verdict's category, message and smtpServer are those of
\* the last host, whatever the earlier hosts answered.
C3_MxFallback ==
    LET hosts == ver.mxRecords
        n == Len(ver.outcomes)
        nonValid(k) == ver.outcomes[k].state = "fulfilled" /\ ~ver.outcomes[k].value.isValid
    IN /\ ver.pc \in {"smtp", "waiting", "returned"} /\ hosts # <<>> =>
             InPriorityOrder(hosts, ver.answer.addresses)
       /\ ver.pc = "smtp" =>
             /\ ver.probed = SubSeq(hosts, 1, n + 1)
             /\ \A k \in 1..n : nonValid(k)
       /\ ver.pc = "returned" /\ n > 0 =>
             /\ ver.probed = SubSeq(hosts, 1, n)
             /\ \A k \in 1..(n - 1) : nonValid(k)
             /\ ver.outcomes[n].state = "fulfilled"
             /\ LET last == ver.outcomes[n].value
                IN IF last.isValid
                   THEN /\ ver.result.isValid
                        /\ ver.result.category = "valid"
                        /\ ver.result.details.smtpServer = hosts[n]
                   ELSE /\ n = Len(hosts)
                        /\ ~ver.result.isValid
                        /\ ver.result.category = last.category
                        /\ ver.result.message = last.message
                        /\ ver.result.details.smtpServer = hosts[n]

\* The resolver listed the hosts out of priority order, the first host probed
\* answered 550/551 and the second timed out: the verdict is the second's.
C3_Witness ==
    /\ ver.pc = "returned"
    /\ Len(ver.answer.addresses) = 2
    /\ ver.answer.addresses[1].priority > ver.answer.addresses[2].priority
    /\ ver.probed = <<ver.answer.addresses[2].exchange, ver.answer.addresses[1].exchange>>
    /\ ver.outcomes = <<Fulfilled(ResolveNotExisting), Fulfilled(ResolveTimeout)>>
    /\ ver.result.category = "smtp_timeout"

\* C8: for a format-valid address an empty answer gives no_mx_records and a
\* failure of the lookup gives dns_error.
C8_DnsFailureIsDnsError ==
    ver.pc = "returned" /\ ver.lookups # <<>> /\ ver.probed = <<>> =>
        IF ver.answer.err \in LookupFailureCodes
        THEN ver.result.category = "dns_error"
        ELSE ver.result.category = "no_mx_records"

(***************************************************************************)
(* Properties of checkSmtpServer (ProbeSpec)                               *)
(***************************************************************************)
\* C4: a probe resolves with one of the seven categories, and until it is
\* resolved its timeout timer stays armed, so that the timeout resolves it when
\* nothing else does.
C4_TimerArmedUntilResolved ==
    /\ probe.promise.state = "fulfilled" =>
          probe.promise.value.category \in {r.category : r \in SmtpResults}
    /\ probe.sock # "idle" /\ probe.promise.state = "pending" => probe.timer

\* C9: the server greets with 220 and closes: once the socket is closed the
\* probe is resolved connection_error.
C9_GreetingThenCloseIsConnectionError ==
    (/\ probe.responseBuffer = Line220 \o CRLF
     /\ probe.readEnded
     /\ probe.sock = "destroyed"
     /\ probe.closers = 0)
        => probe.promise = Fulfilled(ResolveConnectionError)

(***************************************************************************)
(* Properties of the verdicts and of the aggregate                         *)
(***************************************************************************)
\* The closed set of categories.
ClosedCategories ==
    {"valid", "invalid_format", "no_mx_records", "dns_error", "not_existing",
     "mailbox_error", "temporary_error", "smtp_error", "smtp_timeout",
     "connection_error", "processing_error"}

VerdictIsCoherent(v) ==
    /\ v.isValid <=> v.category = "valid"
    /\ v.category \in ClosedCategories

\* C11: every verdict that leaves verifyEmail or the catch block of processBatch
\* (the ones in Promise.all's array, the ones passed to onProgress and the ones in
\* results) has isValid exactly when its category is valid, and a category of the
\* closed set, never the placeholder 'invalid'.
C11_VerdictsAreCoherent ==
    /\ \A pos \in DOMAIN batch.settled : VerdictIsCoherent(batch.settled[pos])
    /\ \A pos \in DOMAIN batch.reported : VerdictIsCoherent(batch.reported[pos])
    /\ \A k \in 1..Len(batch.results) : VerdictIsCoherent(batch.results[k])

\* A batch completed whose verdicts include a processing_error, a valid one and one
\* carried over from a probe that was not valid.
C11_Witness ==
    /\ batch.pc = "done"
    /\ \E k \in 1..Len(batch.results) : batch.results[k].category = "processing_error"
    /\ \E k \in 1..Len(batch.results) : batch.results[k].isValid
    /\ \E k \in 1..Len(batch.results) :
          /\ batch.results[k].category = "connection_error"
          /\ batch.results[k].details.smtpServer # NoHost

\* The sum of the counts of a categories object.
RECURSIVE SumOver(_, _)
SumOver(counts, keys) ==
    IF keys = {} THEN 0
    ELSE LET c == CHOOSE x \in keys : TRUE
         IN counts[c] + SumOver(counts, keys \ {c})

AggregateAddsUp(A) ==
    /\ A.valid + A.invalid = A.total
    /\ SumOver(A.categories, DOMAIN A.categories) = A.total

\* C12: in every aggregate analyzeResults returned (the ones passed to
\* onStatsUpdate and the statistics processBatch returns), valid + invalid = total
\* and the counts of categories add up to total.
C12_AggregateAddsUp ==
    /\ \A k \in 1..Len(batch.stats) : AggregateAddsUp(batch.stats[k].aggregate)
    /\ AggregateAddsUp(batch.statistics)

\* The statistics of a completed batch that count valid and not valid verdicts,
\* one of them a processing_error.
C12_Witness ==
    /\ batch.pc = "done"
    /\ batch.statistics.total = concurrentLimit + 2
    /\ batch.statistics.valid > 0
    /\ batch.statistics.invalid > 1
    /\ "processing_error" \in DOMAIN batch.statistics.categories
    /\ batch.statistics.categories["invalid_format"] > 0

\* C13: an address that fails the format check is returned invalid_format at once:
\* getMxRecords is not called and checkSmtpServer is not called for it.
C13_InvalidFormatDoesNoMoreWork ==
    ver.pc # "idle" /\ ~IsValidFormat(ver.email) =>
        /\ ver.pc = "returned"
        /\ ver.result.category = "invalid_format"
        /\ ~ver.result.isValid
        /\ ver.result.email = ver.email
        /\ ver.lookups = <<>>
        /\ ver.probed = <<>>
        /\ ver.outcomes = <<>>

\* verifyEmail has returned for an address with two '@'.
C13_Witness ==
    /\ ver.pc = "returned"
    /\ ver.email = AddrTwoAts
    /\ ver.result.category = "invalid_format"

(***************************************************************************)
(* Properties of the SMTP conversation (ProbeSpec)                         *)
(***************************************************************************)
IsCommand(c) == c # "QUIT"

\* The protocol commands written to the socket so far, in order.
Commands == SelectSeq(probe.written, IsCommand)

\* C14: the commands written to the socket are HELO, then MAIL FROM, then RCPT TO,
\* each at most once and in that order, however the replies are split over reads.
C14_CommandsOnceInOrder ==
    Commands = SubSeq(<<"HELO", "MAIL FROM", "RCPT TO">>, 1, Len(Commands))

\* The complete lines the server has sent so far: responseBuffer holds everything
\* received since the connection (line 171 appends to it, nothing shortens it).
LinesReceived == Len(Split(probe.responseBuffer, CRLF)) - 1

\* C15: every complete line received goes through the handler's loop once, the
\* unterminated fragment waiting for the next read: there are never more runs of
\* the loop's body than lines received, and as many while the probe is not
\* resolved.
C15_EachLineProcessedOnce ==
    /\ probe.lineRuns <= LinesReceived
    /\ probe.promise.state = "pending" => probe.lineRuns = LinesReceived

\* C16: a probe is resolved valid only after RCPT TO was written, HELO and MAIL
\* FROM before it.
C16_ValidOnlyAfterRcpt ==
    probe.promise = Fulfilled(ResolveValid) =>
        \E k \in 3..Len(Commands) : SubSeq(Commands, 1, k) = <<"HELO", "MAIL FROM", "RCPT TO">>

\* C17: the promise of a probe is settled by the first call of resolve and keeps
\* that value whatever is resolved later: it is pending while resolve was not
\* called, and fulfilled with the first value resolve was called with ever after.
C17_FirstResolutionStands ==
    IF probe.resolveCalls = <<>>
    THEN probe.promise = Pending
    ELSE probe.promise = Fulfilled(probe.resolveCalls[1])

\* The replies resolved the probe valid, then the socket's error resolved it again.
C17_Witness ==
    /\ Len(probe.resolveCalls) >= 2
    /\ probe.resolveCalls[1] = ResolveValid
    /\ probe.resolveCalls[2] = ResolveConnectionError
    /\ probe.promise = Fulfilled(ResolveValid)

\* C18: once the probe is resolved, no event writes to the socket again (no
\* command, no second QUIT) and none runs cleanup again.
C18_EventsAfterResolutionDiscarded ==
    [][probe.promise.state = "fulfilled" =>
          /\ probe'.written = probe.written
          /\ probe'.cleanups = probe.cleanups]_vars

\* C19: a probe that is resolved, on whatever path, has its timer cancelled, and
\* its socket is closed and destroyed in the end, also when the peer had closed
\* the connection before.
C19_TimerAndSocketReleased ==
    /\ [](probe.promise.state = "fulfilled" => ~probe.timer)
    /\ (probe.promise.state = "fulfilled") ~> (probe.sock = "destroyed")

\* The peer closed after its greeting, the socket's error resolved the probe, and
\* every closing that was scheduled has run.
C19_Witness ==
    /\ probe.readEnded
    /\ probe.responseBuffer = Line220 \o CRLF
    /\ probe.promise = Fulfilled(ResolveConnectionError)
    /\ probe.cleanups = 2
    /\ probe.closers = 0
    /\ probe.sock = "destroyed"
    /\ ~probe.timer

HasEveryCategory(A) == ClosedCategories \subseteq DOMAIN A.categories

\* C20: every aggregate analyzeResults returned (the ones passed to onStatsUpdate
\* and the statistics processBatch returns) has an entry in categories for each
\* category of the closed set, processing_error included, seen or not.
C20_EveryCategoryHasAnEntry ==
    /\ \A k \in 1..Len(batch.stats) : HasEveryCategory(batch.stats[k].aggregate)
    /\ batch.pc = "done" => HasEveryCategory(batch.statistics)

====
